---- MODULE Spec2Model ----
(***************************************************************************)
(* Model of generate_structure.py: the directory walk of generate_tree /   *)
(* walk_dir and the driver main, run against a small file system that an   *)
(* environment can change while the walk is in progress.                   *)
(*                                                                         *)
(* Text is modelled as sequences of Unicode code points, so that string    *)
(* concatenation, "\n".join and Python's str ordering are computed rather  *)
(* than assumed.  File-system entries are named by paths: sequences of     *)
(* base names below the scanned root (the root itself is <<>>).            *)
(*                                                                         *)
(* Scope: an entry is a file or a directory (no symbolic links, so no      *)
(* cycles); the scanned root exists when main starts; print does not       *)
(* raise.  open() and write() of the output file may fail.                 *)
(***************************************************************************)
EXTENDS Naturals, Sequences, FiniteSets

(***************************************************************************)
(* Bounds of the model.                                                    *)
(***************************************************************************)
\* Entries the environment creates before the first run.
MaxEntries == 2
\* Changes the environment makes once main has been started (races with the runs).
MaxRaces == 1

(***************************************************************************)
(* Text.                                                                   *)
(***************************************************************************)
\* The code points of the names and literals the model uses (str -> chars).
Encode(s) ==
  CASE s = ".git" -> <<46, 103, 105, 116>>
    [] s = ".vscode" -> <<46, 118, 115, 99, 111, 100, 101>>
    [] s = "__pycache__" -> <<95, 95, 112, 121, 99, 97, 99, 104, 101, 95, 95>>
    [] s = ".idea" -> <<46, 105, 100, 101, 97>>
    [] s = "node_modules" -> <<110, 111, 100, 101, 95, 109, 111, 100, 117, 108, 101, 115>>
    [] s = "build" -> <<98, 117, 105, 108, 100>>
    [] s = "dist" -> <<100, 105, 115, 116>>
    [] s = ".DS_Store" -> <<46, 68, 83, 95, 83, 116, 111, 114, 101>>
    [] s = "venv" -> <<118, 101, 110, 118>>
    [] s = ".env" -> <<46, 101, 110, 118>>
    [] s = "generate_structure.py" ->
         <<103, 101, 110, 101, 114, 97, 116, 101, 95, 115, 116, 114, 117, 99,
           116, 117, 114, 101, 46, 112, 121>>
    [] s = "project_structure.txt" ->
         <<112, 114, 111, 106, 101, 99, 116, 95, 115, 116, 114, 117, 99, 116,
           117, 114, 101, 46, 116, 120, 116>>
    [] s = "Build" -> <<66, 117, 105, 108, 100>>
    [] s = "a" -> <<97>>
    [] s = "root" -> <<114, 111, 111, 116>>

\* "├── ", the pointer of a non-last item (U+251C U+2500 U+2500 space).
Tee == <<9500, 9472, 9472, 32>>
\* "└── ", the pointer of the last item (U+2514 U+2500 U+2500 space).
Elbow == <<9492, 9472, 9472, 32>>
\* "│   ", the prefix extension below a non-last item.
Bar == <<9474, 32, 32, 32>>
\* "    ", the prefix extension below the last item.
Blank == <<32, 32, 32, 32>>
\* "/" and "\n".
Slash == <<47>>
Newline == <<10>>

\* Python's str "<": lexicographic order of the code points, a proper prefix first.
RECURSIVE StrLess(_, _)
StrLess(a, b) ==
  IF b = <<>> THEN FALSE
  ELSE IF a = <<>> THEN TRUE
  ELSE IF Head(a) # Head(b) THEN Head(a) < Head(b)
  ELSE StrLess(Tail(a), Tail(b))

\* A sort that compares in descending order.
RECURSIVE sortedDescending(_)
sortedDescending(S) ==
  IF S = {} THEN <<>>
  ELSE LET m == CHOOSE x \in S : \A y \in S \ {x} : StrLess(Encode(y), Encode(x))
       IN  <<m>> \o sortedDescending(S \ {m})

\* sorted(...) of a listing: os.listdir yields distinct names in no fixed order.
RECURSIVE sorted(_)
sorted(S) ==
  IF S = {} THEN <<>>
  ELSE LET m == CHOOSE x \in S : \A y \in S \ {x} : StrLess(Encode(x), Encode(y))
       IN  <<m>> \o sorted(S \ {m})

\* "\n".join(tree_lines)
RECURSIVE Join(_)
Join(lines) ==
  IF lines = <<>> THEN <<>>
  ELSE IF Len(lines) = 1 THEN lines[1]
  ELSE lines[1] \o Newline \o Join(Tail(lines))

(***************************************************************************)
(* Configuration of the script.                                            *)
(***************************************************************************)
\* The ignore list without the script's own two artifacts.
IGNORE_LIST_NoSelf ==
  { ".git", ".vscode", "__pycache__", ".idea", "node_modules", "build", "dist",
    ".DS_Store", "venv", ".env" }

IGNORE_LIST ==
  { ".git", ".vscode", "__pycache__", ".idea", "node_modules", "build", "dist",
    ".DS_Store", "venv", ".env", "generate_structure.py", "project_structure.txt" }

OUTPUT_FILENAME == "project_structure.txt"

(***************************************************************************)
(* The file system the script runs in.                                     *)
(***************************************************************************)
\* Base names the environment uses: one ignored, one differing from it only
\* in case, one plain.
EnvNames == { "build", "Build", "a" }

\* os.path.basename(os.path.abspath(root_dir))
ProjectName == "root"

\* f"{project_name}/", the first line
Header == Encode(ProjectName) \o Slash

Root == <<>>
OutputPath == <<OUTPUT_FILENAME>>

Parent(p) == SubSeq(p, 1, Len(p) - 1)
BaseName(p) == p[Len(p)]
IsPrefix(d, p) == Len(d) <= Len(p) /\ SubSeq(p, 1, Len(d)) = d
IsStrictPrefix(d, p) == Len(d) < Len(p) /\ SubSeq(p, 1, Len(d)) = d

VARIABLES
  dirs,          \* paths of the directories below the root
  files,         \* paths of the non-directories below the root
  locked,        \* directories (the root included) that cannot be read
  fileText,      \* content of OUTPUT_FILENAME in the root, <<>> when absent or empty
  pc,            \* position of main: "idle", "walk" (in generate_tree), "save", "done"
  console,       \* what main has printed in the current run
  tree_lines,    \* generate_tree's list of lines
  stack,         \* the active calls of walk_dir, innermost first
  project_tree,  \* the string generate_tree returned
  exc,           \* the exception main's handler caught: its type, the failing call
                 \* and that call's path (NoExc when nothing was raised)
  paths,         \* history: for each line of tree_lines, the path it was emitted for
  caught,        \* history: the listing errors walk_dir caught in this run
  seen,          \* history: the paths of the items walk_dir's listings kept in this run
  clean,         \* history: the environment has not changed the file system in this run
  prev,          \* history: the value of base when the current run started
  base,          \* history: <<text>> a successful run wrote, while the tree has not
                 \* changed since that run started; <<>> otherwise
  started,       \* main has been run at least once
  races          \* environment changes since the first run started

vars == <<dirs, files, locked, fileText, pc, console, tree_lines, stack,
          project_tree, exc, paths, caught, seen, clean, prev, base, started, races>>

Entries == dirs \cup files
Exists(p) == p = Root \/ p \in Entries

\* The names os.listdir(d) returns for a readable directory d.
ChildNames(d) == { BaseName(p) : p \in { q \in Entries : q # Root /\ Parent(q) = d } }

\* os.listdir(current_dir): the names, or the exception it raises.
listdir(d) ==
  IF d \in files THEN [err |-> "NotADirectoryError", names |-> {}]
  ELSE IF ~Exists(d) THEN [err |-> "FileNotFoundError", names |-> {}]
  ELSE IF d \in locked THEN [err |-> "PermissionError", names |-> {}]
  ELSE [err |-> "none", names |-> ChildNames(d)]

\* os.path.isdir(path): never raises, False for anything that is not a directory.
isdir(p) == p \in dirs


(***************************************************************************)
(* walk_dir.                                                               *)
(***************************************************************************)
\* A listing that is not filtered at all.
FilterNothing(names) == names

\* [item for item in os.listdir(current_dir) if item not in IGNORE_LIST]
Filter(names) == { item \in names : item \notin IGNORE_LIST }

\* A pointer list one short: zip then drops the last item.
PointersOneShort(n) == [k \in 1..(IF n >= 1 THEN n - 1 ELSE 0) |-> Tee]

\* pointers = ["├── "] * (len(items) - 1) + ["└── "]
\* (a negative repeat count gives the empty list)
Pointers(n) == [k \in 1..(IF n >= 1 THEN n - 1 ELSE 0) |-> Tee] \o <<Elbow>>

\* A zip that pairs the pointers from the wrong end.
ZipReversed(ps, items) ==
  [k \in 1..(IF Len(ps) <= Len(items) THEN Len(ps) ELSE Len(items)) |->
     <<ps[Len(ps) + 1 - k], items[k]>>]

\* zip(pointers, items): pairs up to the shorter of the two
Zip(ps, items) ==
  [k \in 1..(IF Len(ps) <= Len(items) THEN Len(ps) ELSE Len(items)) |-> <<ps[k], items[k]>>]

\* The two extensions exchanged.
ExtensionSwapped(pointer) == IF pointer = Tee THEN Blank ELSE Bar

\* extension = "│   " if pointer == "├── " else "    "
Extension(pointer) == IF pointer = Tee THEN Bar ELSE Blank

\* An except clause that catches nothing, and one that catches everything.
RecoverNothing(err) == FALSE
RecoverAnything(err) == TRUE

\* The exceptions of os.listdir that walk_dir's except clause catches.
Recoverable(err) == err = "FileNotFoundError"

\* A call walk_dir(current_dir, prefix) that has not listed its directory yet.
Call(current_dir, prefix) ==
  [dir |-> current_dir, prefix |-> prefix, listed |-> FALSE, pairs |-> <<>>, idx |-> 1]

Top == Head(stack)

\* walk_dir returns when its loop is exhausted, and so on up the callers.
RECURSIVE Unwind(_)
Unwind(st) ==
  IF st # <<>> /\ Head(st).listed /\ Head(st).idx > Len(Head(st).pairs)
    THEN Unwind(Tail(st))
    ELSE st

(***************************************************************************)
(* What main prints.                                                       *)
(***************************************************************************)
ScanMsg == [kind |-> "scan", text |-> Encode(ProjectName)]
SuccessMsg == [kind |-> "success", text |-> Encode(OUTPUT_FILENAME)]
PreviewMsg(tree) == [kind |-> "preview", text |-> tree]
FooterMsg == [kind |-> "footer", text |-> <<>>]
FailureMsg(e) == [kind |-> "failure", text |-> e.type]

\* Lines 82-85: the success message, the preview and the footer.
Report(out, tree) == out \o <<SuccessMsg, PreviewMsg(tree), FooterMsg>>

\* A handler that swallows the exception without a word.
ExceptSilently(out, e) == out

\* Lines 87-88: except Exception as e: print the failure message.
Except(out, e) == Append(out, FailureMsg(e))

NoExc == [type |-> "none", op |-> "none", at |-> Root]
Raised(type, op, at) == [type |-> type, op |-> op, at |-> at]

(***************************************************************************)
(* main, generate_tree and walk_dir.                                       *)
(***************************************************************************)
\* A main that opens the output file before it renders the tree.
StartMainOpeningFirst ==
  /\ pc \in {"idle", "done"}
  /\ started' = TRUE
  /\ console' = <<ScanMsg>>
  /\ tree_lines' = <<Header>>
  /\ paths' = <<Root>>
  /\ stack' = <<Call(Root, <<>>)>>
  /\ project_tree' = <<>>
  /\ exc' = NoExc
  /\ caught' = {}
  /\ seen' = {}
  /\ pc' = "walk"
  /\ clean' = TRUE
  /\ prev' = base
  /\ files' = files \cup {OutputPath}
  /\ fileText' = <<>>
  /\ UNCHANGED <<dirs, locked, base, races>>

\* Lines 71-76 and 34-38, 63: main prints the scan message and calls
\* generate_tree, which emits the header and calls walk_dir(root_dir).
StartMain ==
  /\ pc \in {"idle", "done"}
  /\ started' = TRUE
  /\ console' = <<ScanMsg>>
  /\ tree_lines' = <<Header>>
  /\ paths' = <<Root>>
  /\ stack' = <<Call(Root, <<>>)>>
  /\ project_tree' = <<>>
  /\ exc' = NoExc
  /\ caught' = {}
  /\ seen' = {}
  /\ pc' = "walk"
  /\ clean' = TRUE
  /\ prev' = base
  /\ UNCHANGED <<dirs, files, locked, fileText, base, races>>

\* Lines 45-52: the innermost call lists, filters and sorts its directory.  A
\* caught exception makes it return; any other exception unwinds generate_tree
\* to main's handler, which prints the failure message.
ListDir ==
  /\ pc = "walk" /\ stack # <<>> /\ ~Top.listed
  /\ LET r == listdir(Top.dir)
         items == sorted(Filter(r.names))
     IN  IF r.err = "none"
           THEN /\ stack' = Unwind(<<[Top EXCEPT !.listed = TRUE,
                                                 !.pairs = Zip(Pointers(Len(items)), items)]>>
                                    \o Tail(stack))
                /\ seen' = seen \cup { Append(Top.dir, items[k]) : k \in 1..Len(items) }
                /\ UNCHANGED <<pc, exc, caught, console>>
         ELSE IF Recoverable(r.err)
           THEN /\ stack' = Unwind(Tail(stack))
                /\ caught' = caught \cup {[dir |-> Top.dir, err |-> r.err]}
                /\ UNCHANGED <<pc, exc, seen, console>>
         ELSE /\ stack' = <<>>
              /\ exc' = Raised(r.err, "listdir", Top.dir)
              /\ console' = Except(console, exc')
              /\ pc' = "done"
              /\ UNCHANGED <<caught, seen>>
  /\ UNCHANGED <<dirs, files, locked, fileText, tree_lines, project_tree, paths,
                 clean, prev, base, started, races>>

\* Lines 54-61: one iteration of the loop of the innermost call: emit the
\* item's line and, when the item is a directory, call walk_dir on it.
VisitItem ==
  /\ pc = "walk" /\ stack # <<>> /\ Top.listed /\ Top.idx <= Len(Top.pairs)
  /\ LET pointer == Top.pairs[Top.idx][1]
         item == Top.pairs[Top.idx][2]
         path == Append(Top.dir, item)
         caller == [Top EXCEPT !.idx = Top.idx + 1]
     IN  /\ tree_lines' = Append(tree_lines, Top.prefix \o pointer \o Encode(item))
         /\ paths' = Append(paths, path)
         /\ stack' = IF isdir(path)
                        THEN <<Call(path, Top.prefix \o Extension(pointer)), caller>>
                             \o Tail(stack)
                        ELSE Unwind(<<caller>> \o Tail(stack))
  /\ UNCHANGED <<dirs, files, locked, fileText, pc, console, project_tree, exc,
                 caught, seen, clean, prev, base, started, races>>

\* Line 64: walk_dir(root_dir) has returned; generate_tree returns the joined lines.
ReturnTree ==
  /\ pc = "walk" /\ stack = <<>>
  /\ project_tree' = Join(tree_lines)
  /\ pc' = "save"
  /\ UNCHANGED <<dirs, files, locked, fileText, console, tree_lines, stack, exc,
                 paths, caught, seen, clean, prev, base, started, races>>

\* Lines 79-88: main opens the output file for writing (which creates or
\* truncates it), writes the tree and reports.  open may raise; so may the
\* write, which then leaves the truncated file behind.
SaveAndReport ==
  /\ pc = "save"
  /\ pc' = "done"
  /\ \E r \in {"ok", "open", "write"} :
       /\ exc' = CASE r = "ok" -> NoExc
                   [] r = "open" -> Raised("PermissionError", "open", OutputPath)
                   [] r = "write" -> Raised("OSError", "write", OutputPath)
       /\ IF r = "open"
            THEN UNCHANGED <<files, fileText>>
            ELSE /\ files' = files \cup {OutputPath}
                 /\ fileText' = IF r = "ok" THEN project_tree ELSE <<>>
       /\ console' = IF r = "ok" THEN Report(console, project_tree)
                                 ELSE Except(console, exc')
       /\ base' = IF r # "ok" THEN base
                  ELSE IF clean THEN <<project_tree>> ELSE <<>>
  /\ UNCHANGED <<dirs, locked, tree_lines, stack, project_tree, paths, caught,
                 seen, clean, prev, started, races>>

(***************************************************************************)
(* The environment: other processes changing the scanned tree.             *)
(***************************************************************************)
\* Before main is first started the environment builds the tree; afterwards
\* each of its changes races with the runs and is counted.
EnvBudget ==
  /\ IF started THEN races < MaxRaces /\ races' = races + 1 ELSE races' = races
  /\ clean' = FALSE
  /\ base' = <<>>

\* A file or a directory appears in an existing directory.
EnvCreate ==
  /\ ~started => Cardinality(Entries) < MaxEntries
  /\ \E d \in dirs \cup {Root}, n \in EnvNames, kind \in {"file", "dir"} :
       /\ Append(d, n) \notin Entries
       /\ IF kind = "dir"
            THEN dirs' = dirs \cup {Append(d, n)} /\ UNCHANGED files
            ELSE files' = files \cup {Append(d, n)} /\ UNCHANGED dirs
  /\ EnvBudget
  /\ UNCHANGED <<locked, fileText, pc, console, tree_lines, stack, project_tree,
                 exc, paths, caught, seen, prev, started>>

\* A directory loses its read permission.
EnvLock ==
  /\ started
  /\ \E d \in (dirs \cup {Root}) \ locked : locked' = locked \cup {d}
  /\ EnvBudget
  /\ UNCHANGED <<dirs, files, fileText, pc, console, tree_lines, stack,
                 project_tree, exc, paths, caught, seen, prev, started>>

\* An entry that is not the script's output file is removed with its subtree.
EnvRemove ==
  /\ started
  /\ \E p \in Entries \ {OutputPath} :
       /\ dirs' = { q \in dirs : ~IsPrefix(p, q) }
       /\ files' = { q \in files : ~IsPrefix(p, q) }
       /\ locked' = { q \in locked : ~IsPrefix(p, q) }
  /\ EnvBudget
  /\ UNCHANGED <<fileText, pc, console, tree_lines, stack, project_tree, exc,
                 paths, caught, seen, prev, started>>

Init ==
  /\ dirs = {} /\ files = {} /\ locked = {}
  /\ fileText = <<>>
  /\ pc = "idle"
  /\ console = <<>>
  /\ tree_lines = <<>>
  /\ stack = <<>>
  /\ project_tree = <<>>
  /\ exc = NoExc
  /\ paths = <<>>
  /\ caught = {}
  /\ seen = {}
  /\ clean = TRUE
  /\ prev = <<>>
  /\ base = <<>>
  /\ started = FALSE
  /\ races = 0

\* One run of main, with the environment changing the tree at any moment of it.
Next ==
  \/ (~started /\ StartMain)
  \/ ListDir \/ VisitItem \/ ReturnTree \/ SaveAndReport
  \/ EnvCreate \/ EnvLock \/ EnvRemove

Spec == Init /\ [][Next]_vars

\* Any number of runs of main, one after the other, with the environment
\* changing the tree between the runs.
NextRuns ==
  \/ StartMain
  \/ ListDir \/ VisitItem \/ ReturnTree \/ SaveAndReport
  \/ (pc \in {"idle", "done"} /\ EnvCreate)
  \/ (pc \in {"idle", "done"} /\ EnvLock)
  \/ (pc \in {"idle", "done"} /\ EnvRemove)

SpecRuns == Init /\ [][NextRuns]_vars

(***************************************************************************)
(* Reading the output back: an entry line is zero or more four-character   *)
(* prefix segments, a pointer and the name.                                *)
(***************************************************************************)
SegLen == Len(Bar)
EntryLines == 2..Len(tree_lines)

RECURSIVE LeadSegs(_)
LeadSegs(line) ==
  IF Len(line) >= SegLen /\ SubSeq(line, 1, SegLen) \in {Bar, Blank}
    THEN 1 + LeadSegs(SubSeq(line, SegLen + 1, Len(line)))
    ELSE 0

Seg(line, k) == SubSeq(line, SegLen * (k - 1) + 1, SegLen * k)
PointerOf(line) == Seg(line, LeadSegs(line) + 1)
NameTextOf(line) == SubSeq(line, SegLen * (LeadSegs(line) + 1) + 1, Len(line))

ListedPaths == { paths[i] : i \in EntryLines }
LineOf(p) == CHOOSE i \in EntryLines : paths[i] = p
NoIgnoredName(p) == \A k \in 1..Len(p) : p[k] \notin IGNORE_LIST

\* generate_tree has returned its result in the current run.
WalkComplete == pc = "save" \/ (pc = "done" /\ exc.op # "listdir")

(***************************************************************************)
(* The claims.                                                             *)
(***************************************************************************)
\* C1: no output line names an entry whose base name is in the ignore list,
\* nor any entry below such an entry, and walk_dir is never called on one.
C1_IgnoredNeverListed ==
  /\ \A i \in EntryLines :
       /\ NoIgnoredName(paths[i])
       /\ \A n \in IGNORE_LIST : NameTextOf(tree_lines[i]) # Encode(n)
  /\ \A k \in 1..Len(stack) : NoIgnoredName(stack[k].dir)

C1_Witness ==
  /\ pc = "done" /\ exc = NoExc
  /\ <<"build">> \in dirs /\ <<"build", "a">> \in Entries
  /\ Len(tree_lines) >= 2

\* C2: on a tree without ignored names that does not change during the walk,
\* generate_tree returns the header followed by exactly one line per entry.
C2_EveryEntryListedOnce ==
  (pc = "save" /\ clean /\ \A p \in Entries : NoIgnoredName(p)) =>
     /\ tree_lines[1] = Header
     /\ Len(tree_lines) = 1 + Cardinality(Entries)
     /\ ListedPaths = Entries
     /\ \A i, j \in EntryLines : i # j => paths[i] # paths[j]
     /\ \A i \in EntryLines : NameTextOf(tree_lines[i]) = Encode(BaseName(paths[i]))

C2_Witness ==
  /\ pc = "save" /\ clean /\ \A p \in Entries : NoIgnoredName(p)
  /\ Cardinality(Entries) >= 2
  /\ \E d \in dirs : ChildNames(d) = {}

\* C3 as stated: an exception raised by listing a subdirectory, whatever its
\* type, never reaches main's handler.
C3_AnyListingErrorCaught == exc.op = "listdir" => exc.at = Root

\* C3 as amended: a FileNotFoundError raised by listing a directory is caught
\* at that directory: it is not reported, the directory's own line stays, no
\* line is emitted below it, every item the listings kept is still rendered,
\* and the run prints the success message unless something else raises.
C3_MissingDirectorySkipped ==
  /\ exc.op = "listdir" => exc.type # "FileNotFoundError"
  /\ \A c \in caught :
       /\ c.dir \in ListedPaths
       /\ \A i \in EntryLines : ~IsStrictPrefix(c.dir, paths[i])
  /\ WalkComplete => ListedPaths = seen
  /\ (pc = "done" /\ caught # {} /\ exc = NoExc) =>
       \E k \in 1..Len(console) : console[k] = SuccessMsg

C3_Witness ==
  /\ pc = "done" /\ exc = NoExc
  /\ \E c \in caught : c.err = "FileNotFoundError" /\ LineOf(c.dir) < Len(paths)

\* C4: a finished run has printed either the success message with the full
\* tree as preview, or exactly one failure line with the error, never both
\* and never neither; success is printed exactly when nothing raised.
C4_ExactlyOneOutcome ==
  /\ pc \in {"walk", "save"} => console = <<ScanMsg>>
  /\ pc = "done" =>
       IF exc = NoExc
         THEN /\ console = <<ScanMsg, SuccessMsg, PreviewMsg(Join(tree_lines)), FooterMsg>>
              /\ fileText = Join(tree_lines)
         ELSE console = <<ScanMsg, FailureMsg(exc)>>

C4_Witness ==
  /\ pc = "done" /\ exc.op = "write"
  /\ console[Len(console)] = FailureMsg(exc)
  /\ Len(tree_lines) >= 2

\* C5: the header comes first, siblings appear in ascending order of name, and
\* the lines below a directory follow its own line and precede its next sibling.
C5_PreorderSorted ==
  /\ tree_lines # <<>> => tree_lines[1] = Header /\ paths[1] = Root
  /\ \A i, j \in EntryLines :
       /\ (i < j /\ Parent(paths[i]) = Parent(paths[j])) =>
            StrLess(NameTextOf(tree_lines[i]), NameTextOf(tree_lines[j]))
       /\ IsStrictPrefix(paths[i], paths[j]) =>
            /\ i < j
            /\ \A k \in EntryLines :
                 (i < k /\ Parent(paths[k]) = Parent(paths[i])) => j < k

C5_Witness ==
  /\ pc = "save"
  /\ \E i, j, k \in EntryLines :
       /\ IsStrictPrefix(paths[i], paths[j])
       /\ Parent(paths[k]) = Parent(paths[i]) /\ i < k

\* C6: once the walk is complete, among the lines of one directory's children
\* the last one, which is the greatest name the listing kept, carries the last
\* pointer and every other one the non-last pointer; a directory of which
\* nothing was kept has no child line.
C6_LastPointer ==
  WalkComplete =>
    /\ ListedPaths = seen
    /\ \A i \in EntryLines :
         LET later == { j \in EntryLines : j > i /\ Parent(paths[j]) = Parent(paths[i]) }
         IN  /\ PointerOf(tree_lines[i]) = IF later = {} THEN Elbow ELSE Tee
             /\ later = {} =>
                  \A q \in seen :
                    Parent(q) = Parent(paths[i]) =>
                      ~StrLess(Encode(BaseName(paths[i])), Encode(BaseName(q)))

C6_Witness ==
  /\ pc = "save"
  /\ \E i, j \in EntryLines :
       /\ i < j /\ Parent(paths[i]) = Parent(paths[j])
       /\ \E k \in EntryLines : Parent(paths[k]) = paths[i]

\* C7: the line of an entry at depth d starts with d-1 four-character
\* segments; the k-th is the bar when the ancestor at depth k carries the
\* non-last pointer and four spaces when it carries the last pointer.
C7_PrefixSegments ==
  \A i \in EntryLines :
    LET line == tree_lines[i]
        d == Len(paths[i])
    IN  /\ LeadSegs(line) = d - 1
        /\ PointerOf(line) \in {Tee, Elbow}
        /\ NameTextOf(line) = Encode(BaseName(paths[i]))
        /\ \A k \in 1..(d - 1) :
             Seg(line, k) =
               IF PointerOf(tree_lines[LineOf(SubSeq(paths[i], 1, k))]) = Tee
                 THEN Bar ELSE Blank

C7_Witness ==
  \E i \in EntryLines : Len(paths[i]) >= 2 /\ Seg(tree_lines[i], 1) = Bar

\* C8: the output file is never listed, and a successful run on a tree that
\* has not changed since an earlier successful run started writes the same
\* text as that run.
C8_RerunIdentical ==
  /\ \A i \in EntryLines :
       /\ paths[i] # OutputPath
       /\ NameTextOf(tree_lines[i]) # Encode(OUTPUT_FILENAME)
  /\ (pc = "done" /\ exc = NoExc /\ clean /\ prev # <<>>) =>
       /\ project_tree = prev[1]
       /\ fileText = prev[1]

C8_Witness ==
  /\ pc = "done" /\ exc = NoExc /\ clean /\ prev # <<>>
  /\ OutputPath \in files
  /\ Len(tree_lines) >= 2

\* C9: walk_dir catches FileNotFoundError only; any other listing error
\* reaches main's handler: generate_tree returns nothing, the failing
\* directory's line is the last one emitted, and the run prints the failure
\* line and not the success message.
C9_OtherListingErrorsPropagate ==
  /\ \A c \in caught : c.err = "FileNotFoundError"
  /\ exc.op = "listdir" =>
       /\ exc.type \in {"PermissionError", "NotADirectoryError"}
       /\ pc = "done" /\ stack = <<>> /\ project_tree = <<>>
       /\ paths[Len(paths)] = exc.at
       /\ console = <<ScanMsg, FailureMsg(exc)>>

C9_Witness ==
  /\ pc = "done" /\ exc.op = "listdir" /\ exc.type = "PermissionError"
  /\ exc.at # Root
  /\ \E p \in Entries : NoIgnoredName(p) /\ p \notin ListedPaths

\* C10: the output file is created, truncated or written only by the step
\* that follows generate_tree's return.
C10_FileTouchedOnlyAfterRender ==
  [][ (fileText' # fileText \/ (OutputPath \in files') # (OutputPath \in files))
        => pc = "save" ]_vars

C10_Witness ==
  /\ pc = "done" /\ exc.op = "listdir"
  /\ OutputPath \in files /\ fileText # <<>>

====
